---- MODULE Spec2Model ----
(***************************************************************************)
(* Staged case-generation pipeline of mm-backend.                          *)
(*                                                                         *)
(* Three routes run the same three-stage pattern (core, entity batches of  *)
(* three, hidden context) against the text generation service:             *)
(*   "impostor" - routes/generate-impostor-case.ts  (players, isKiller)    *)
(*   "initial"  - generate-initial-case (suspects, persisted to the store) *)
(*   "phases"   - generateImpostorPhases (players with phases, playerId)   *)
(* One run is one HTTP request.  Every await of the handler is a step.     *)
(***************************************************************************)
EXTENDS Integers, Sequences, FiniteSets, TLC

\* ---------------------------------------------------------------- bounds
\* largest body.suspects a request carries
MaxSuspects == 4

\* how many records fewer than requested the catalog may return
MaxShortfall == 1

\* how many values of the generation output of one run may differ from what
\* the prompts asked for (a flipped flag, another id, a missing field, an
\* array one element short or long)
MaxDeviations == 1

\* longest text, over TextAlphabet, handed to parseAndRepairJSON besides
\* the sample texts
MaxTextLen == 4

\* largest entity list handed to the matching loop with free gender, role
\* and image values
MaxEntities == 2

\* most discussion rounds a stored case carries in its discussionHistory
MaxStoredRounds == 2

\* ------------------------------------------------------- program constants
BATCH_SIZE == 3

\* ------------------------------------------------------------- vocabulary
Routes == {"impostor", "initial", "phases"}

NoUrl == 0
\* a URL the generation service made up (not a catalog image)
InventedUrl == 99
\* an identifier absent from the generation output (undefined)
NoId == 0

Min(a, b) == IF a < b THEN a ELSE b

Range(s) == {s[i] : i \in 1..Len(s)}

\* ------------------------------------------------------------ strings
\* Strings are sequences of character codes; an upper-case letter is its
\* lower-case code plus UpperOffset.
UpperOffset == 100

ToLowerCase(s) == [i \in 1..Len(s) |-> IF s[i] > UpperOffset THEN s[i] - UpperOffset ELSE s[i]]

\* String.prototype.includes: t occurs in s as a contiguous substring
\* (the empty string occurs in every string)
Includes(s, t) ==
  \E k \in 0..(Len(s) - Len(t)) : \A j \in 1..Len(t) : s[k + j] = t[j]

\* ------------------------------------------------------------ catalog
\* Record i of the suspects table.  The odd records share one occupation
\* (two records can score the same for one entity); the occupation of an
\* even record contains it as a substring.
OccupationEs(i) == IF i % 2 = 0 THEN <<1, i>> ELSE <<1>>
OccupationEn(i) == <<i + 20>>

Suspect(i, url) ==
  [id |-> i,
   image_url |-> url,
   gender |-> IF i % 2 = 1 THEN "male" ELSE "female",
   occupation |-> [es |-> OccupationEs(i), en |-> OccupationEn(i)],
   approx_age |-> 30 + 2 * i]

\* What getSuspectsForScene can resolve to for a request of `count`
\* suspects: at most `count` records with distinct ids; the last one may
\* lack an image.
CatalogResults(count) ==
  {[i \in 1..k |-> Suspect(i, IF i = k /\ ~lastHasImage THEN NoUrl ELSE i)] :
     k \in {c \in 0..count : count - c <= MaxShortfall \/ c = 0},
     lastHasImage \in BOOLEAN}

\* ------------------------------------------------- generation service output
\* The entity the prompt of a batch asks for at position pos (1-based):
\* the pre-computed identifier, the culprit flag of the pre-selected index
\* (the suspects of the initial-case route carry no flag), and the gender,
\* occupation, age and image of the catalog record listed at that position.
PromptedEntity(rt, pos, killer, cat) ==
  [id |-> pos,
   name |-> pos,
   isKiller |-> (rt # "initial" /\ pos = killer),
   photo |-> IF pos <= Len(cat) THEN cat[pos].image_url ELSE NoUrl,
   gender |-> IF pos <= Len(cat) THEN cat[pos].gender ELSE "male",
   role |-> IF pos <= Len(cat) THEN cat[pos].occupation.es ELSE <<>>,
   age |-> IF pos <= Len(cat) THEN cat[pos].approx_age ELSE 35]

\* An image URL the service writes when it does not copy the one listed
\* for the position: the first URL of the prompt, or one it invents.
EchoedUrl(cat) ==
  IF Len(cat) > 0 /\ cat[1].image_url # NoUrl THEN cat[1].image_url ELSE InventedUrl

\* The entities the service may return at position pos, each with the
\* number of values in which it differs from the prompted entity.
EntityOutputs(rt, pos, killer, cat, budget) ==
  LET p == PromptedEntity(rt, pos, killer, cat)
      ids == {p.id} \cup (IF budget > 0
                           THEN {1} \cup (IF rt = "phases" THEN {NoId} ELSE {})
                           ELSE {})
      names == {p.name} \cup (IF budget > 0 /\ rt = "phases" THEN {1} ELSE {})
      flags == {p.isKiller} \cup (IF budget > 0 /\ rt # "initial" THEN {~p.isKiller} ELSE {})
      photos == {p.photo} \cup (IF budget > 0 THEN {EchoedUrl(cat)} ELSE {})
      Cost(e) == (IF e.id # p.id THEN 1 ELSE 0) + (IF e.name # p.name THEN 1 ELSE 0)
                 + (IF e.isKiller # p.isKiller THEN 1 ELSE 0)
                 + (IF e.photo # p.photo THEN 1 ELSE 0)
      all == {[p EXCEPT !.id = i, !.name = n, !.isKiller = k, !.photo = ph] :
                i \in ids, n \in names, k \in flags, ph \in photos}
  IN {[entity |-> e, cost |-> Cost(e)] : e \in {x \in all : Cost(x) <= budget}}

\* The arrays of `size` entities for positions first, first+1, ... the
\* service may return within the budget: [players, cost].
RECURSIVE ArrayOutputs(_, _, _, _, _, _)
ArrayOutputs(rt, first, size, killer, cat, budget) ==
  IF size = 0
    THEN {[players |-> <<>>, cost |-> 0]}
    ELSE UNION {
           {[players |-> <<h.entity>> \o t.players, cost |-> h.cost + t.cost] :
              t \in ArrayOutputs(rt, first + 1, size - 1, killer, cat, budget - h.cost)} :
           h \in EntityOutputs(rt, first, killer, cat, budget)}

\* What one batch call can resolve to.  kind is
\*   "callFailure"   the call threw, or returned no content
\*   "unrecoverable" parseAndRepairJSON threw
\*   "noArray"       the parsed object has no players/suspects array
\*   "array"         the parsed object carries the array `players`
BatchOutputs(rt, first, size, killer, cat, budget) ==
  {[kind |-> k, players |-> <<>>, cost |-> 0] : k \in {"callFailure", "unrecoverable"}}
  \cup (IF budget > 0 THEN {[kind |-> "noArray", players |-> <<>>, cost |-> 1]} ELSE {})
  \cup {[kind |-> "array", players |-> a.players, cost |-> a.cost] :
          a \in ArrayOutputs(rt, first, size, killer, cat, budget)}
  \cup (IF budget > 0
          THEN {[kind |-> "array", players |-> a.players, cost |-> 1] :
                  a \in ArrayOutputs(rt, first, size - 1, killer, cat, 0)
                        \cup ArrayOutputs(rt, first, size + 1, killer, cat, 0)}
          ELSE {})

\* ------------------------------------------------------------ reconciler
NoRecord == Suspect(NoId, NoUrl)

Abs(x) == IF x < 0 THEN -x ELSE x

\* scoreMatch of the impostor-case route
ScoreMatchImpostor(gen, orig) ==
  LET genRole == ToLowerCase(gen.role)
      origOccEs == ToLowerCase(orig.occupation.es)
      origOccEn == ToLowerCase(orig.occupation.en)
      diff == Abs(gen.age - orig.approx_age)
  IN (IF genRole # <<>> /\ (genRole = origOccEs \/ genRole = origOccEn) THEN 5
      ELSE IF genRole # <<>> /\ (Includes(origOccEs, genRole) \/ Includes(genRole, origOccEs)) THEN 3
      ELSE 0)
     + (IF gen.gender = orig.gender THEN 2 ELSE 0)
     + (IF diff <= 1 THEN 2 ELSE IF diff <= 3 THEN 1 ELSE 0)

\* scoreMatch of the initial-case route
ScoreMatchInitial(gen, orig) ==
  LET genRole == ToLowerCase(gen.role)
      origOccEs == ToLowerCase(orig.occupation.es)
      origOccEn == ToLowerCase(orig.occupation.en)
  IN (IF genRole # <<>> /\ (genRole = origOccEs \/ genRole = origOccEn) THEN 5
      ELSE IF genRole # <<>> /\ Includes(origOccEs, genRole) THEN 3
      ELSE 0)
     + (IF gen.gender = orig.gender THEN 2 ELSE 0)

\* scoreMatch of the impostor-phases route (language 'es')
ScoreMatchPhases(gen, orig) ==
  LET genRole == ToLowerCase(gen.role)
      origRole == ToLowerCase(orig.occupation.es)
  IN IF Includes(genRole, origRole) \/ Includes(origRole, genRole) THEN 10 ELSE 0

scoreMatch(rt, gen, orig) ==
  CASE rt = "impostor" -> ScoreMatchImpostor(gen, orig)
    [] rt = "initial" -> ScoreMatchInitial(gen, orig)
    [] rt = "phases" -> ScoreMatchPhases(gen, orig)

\* BestPicks without the order of the loop: any record of the highest score
AnyBestPicks(rt, gen, candidates) ==
  {i \in 1..Len(candidates) :
     \A j \in 1..Len(candidates) :
       scoreMatch(rt, gen, candidates[j]) <= scoreMatch(rt, gen, candidates[i])}

\* The positions the forEach over the candidates can leave in `best`:
\* bestScore starts at -1 and is replaced only by a strictly higher score,
\* so a record of the highest score that no earlier record equals.
BestPicks(rt, gen, candidates) ==
  {i \in 1..Len(candidates) :
     /\ \A j \in 1..Len(candidates) :
          scoreMatch(rt, gen, candidates[j]) <= scoreMatch(rt, gen, candidates[i])
     /\ \A j \in 1..(i - 1) :
          scoreMatch(rt, gen, candidates[j]) < scoreMatch(rt, gen, candidates[i])}

\* The record the forEach ends with (none when every record is claimed)
BestCandidate(rt, gen, candidates) ==
  IF candidates = <<>>
    THEN NoRecord
    ELSE candidates[CHOOSE i \in BestPicks(rt, gen, candidates) : TRUE]

\* The candidates one entity is matched against: the records not claimed
\* yet; the phases route first narrows them to the entity's gender when any
\* unclaimed record has it.
Candidates(rt, gen, cat, usedIds) ==
  LET remaining == SelectSeq(cat, LAMBDA o : o.id \notin usedIds)
      genderFiltered == SelectSeq(remaining, LAMBDA o : o.gender = gen.gender)
  IN IF rt = "phases" /\ genderFiltered # <<>> THEN genderFiltered ELSE remaining

\* allPlayers.forEach((gen) => ...): claim the best record and copy its
\* image onto the entity when it has one.
RECURSIVE MatchPhotos(_, _, _, _, _)
MatchPhotos(rt, players, cat, i, usedIds) ==
  IF i > Len(players)
    THEN players
    ELSE LET gen == players[i]
             best == BestCandidate(rt, gen, Candidates(rt, gen, cat, usedIds))
             claimed == IF best.id # NoId THEN usedIds \cup {best.id} ELSE usedIds
             matched == IF best.image_url # NoUrl
                          THEN [gen EXCEPT !.photo = best.image_url]
                          ELSE gen
         IN MatchPhotos(rt, [players EXCEPT ![i] = matched], cat, i + 1, claimed)

\* Every sequence of claimed record ids (NoId: none) the matching loop can
\* produce for the entities from position i on.
RECURSIVE Assignments(_, _, _, _, _)
Assignments(rt, players, cat, i, usedIds) ==
  IF i > Len(players)
    THEN {<<>>}
    ELSE LET candidates == Candidates(rt, players[i], cat, usedIds)
             picks == BestPicks(rt, players[i], candidates)
         IN IF picks = {}
              THEN {<<NoId>> \o rest : rest \in Assignments(rt, players, cat, i + 1, usedIds)}
              ELSE UNION {
                     {<<candidates[p].id>> \o rest :
                        rest \in Assignments(rt, players, cat, i + 1,
                                             usedIds \cup {candidates[p].id})} :
                     p \in picks}

\* Reconcile with the matching loop left out
ReconcileSkipped(rt, players, cat) == players

\* The phases route skips the matching when the catalog returned nothing
\* (it has answered 500 before then); the other routes always match.
Reconcile(rt, players, cat) == MatchPhotos(rt, players, cat, 1, {})

\* ------------------------------------------- playerId assignment (phases)
\* First pass: a generated name equal to the name of room player n takes
\* that player's id unless it was taken already.
RECURSIVE AssignByName(_, _, _, _)
AssignByName(players, room, i, used) ==
  IF i > Len(players)
    THEN [players |-> players, used |-> used]
    ELSE LET n == players[i].name
             hit == n >= 1 /\ n <= room /\ n \notin used
         IN AssignByName(IF hit THEN [players EXCEPT ![i].id = n] ELSE players,
                         room, i + 1, IF hit THEN used \cup {n} ELSE used)

\* Second pass: an entity still without id takes the id of its index, or
\* the first id not used yet, or the id of its index anyway.
RECURSIVE AssignByIndex(_, _, _, _)
AssignByIndex(players, count, i, used) ==
  IF i > Len(players)
    THEN players
    ELSE IF players[i].id # NoId
      THEN AssignByIndex(players, count, i + 1, used)
      ELSE LET free == {k \in 1..count : k \notin used}
               given == IF i > count THEN i
                        ELSE IF i \notin used THEN i
                        ELSE IF free # {} THEN CHOOSE k \in free : \A m \in free : k <= m
                        ELSE i
               taken == IF i <= count /\ (i \notin used \/ free # {}) THEN used \cup {given} ELSE used
           IN AssignByIndex([players EXCEPT ![i].id = given], count, i + 1, taken)

AssignPlayerIds(players, room, count) ==
  LET first == AssignByName(players, Min(room, count), 1, {})
  IN AssignByIndex(first.players, count, 1, first.used)

\* ------------------------------------------------------------ JSON text
\* The text of a generation result is a sequence of one-character strings.
\* Positions are 1-based; 0 stands for the -1 of lastIndexOf.
Whitespace == {" "}
Digits == {"1", "2", "3"}
\* the characters JSON allows after a backslash (\u excepted)
Escapable == {"\"", "\\", "/", "b", "f", "n", "r", "t"}

Max(a, b) == IF a > b THEN a ELSE b

\* String.prototype.slice(from, to) with 1-based inclusive bounds
Slice(s, from, to) == IF from > to THEN <<>> ELSE SubSeq(s, from, to)

RECURSIVE TrimStart(_)
TrimStart(s) == IF s # <<>> /\ Head(s) \in Whitespace THEN TrimStart(Tail(s)) ELSE s

RECURSIVE TrimEnd(_)
TrimEnd(s) ==
  IF s # <<>> /\ s[Len(s)] \in Whitespace THEN TrimEnd(Slice(s, 1, Len(s) - 1)) ELSE s

\* String.prototype.trim
Trim(s) == TrimEnd(TrimStart(s))

\* String.prototype.endsWith for one character
EndsWith(s, c) == s # <<>> /\ s[Len(s)] = c

\* String.prototype.lastIndexOf for one character
LastIndexOf(s, c) ==
  IF \E i \in 1..Len(s) : s[i] = c
    THEN CHOOSE i \in 1..Len(s) : s[i] = c /\ \A j \in (i + 1)..Len(s) : s[j] # c
    ELSE 0

\* (s.match(/"/g) || []).length
QuoteCount(s) == Cardinality({i \in 1..Len(s) : s[i] = "\""})

\* ------------------------------------------------------------ JSON.parse
\* A parsed value is the sequence of its tokens in document order; a token
\* is [k, v] with k one of "{", "}", "[", "]", "key", "string", "number" and
\* v the decoded characters of a key, string or number.  The texts checked
\* carry no repeated key, no literal (true, false, null) and no number other
\* than a run of digits.
Tok(k, v) == [k |-> k, v |-> v]
ParseFail == [ok |-> FALSE, pos |-> 0, val |-> <<>>]
Parsed(pos, val) == [ok |-> TRUE, pos |-> pos, val |-> val]

RECURSIVE SkipWs(_, _)
SkipWs(s, i) == IF i <= Len(s) /\ s[i] \in Whitespace THEN SkipWs(s, i + 1) ELSE i

\* the characters of a string literal after its opening quote
RECURSIVE ParseStringFrom(_, _, _)
ParseStringFrom(s, i, acc) ==
  IF i > Len(s) THEN ParseFail
  ELSE IF s[i] = "\"" THEN Parsed(i + 1, acc)
  ELSE IF s[i] = "\\"
    THEN IF i + 1 <= Len(s) /\ s[i + 1] \in Escapable
           THEN ParseStringFrom(s, i + 2,
                                Append(acc, IF s[i + 1] \in {"\"", "\\", "/"}
                                              THEN s[i + 1] ELSE "\\" \o s[i + 1]))
           ELSE ParseFail
    ELSE ParseStringFrom(s, i + 1, Append(acc, s[i]))

RECURSIVE ParseDigits(_, _, _)
ParseDigits(s, i, acc) ==
  IF i <= Len(s) /\ s[i] \in Digits
    THEN ParseDigits(s, i + 1, Append(acc, s[i]))
    ELSE Parsed(i, acc)

RECURSIVE ParseValue(_, _)
RECURSIVE ParseElements(_, _, _)
RECURSIVE ParseMembers(_, _, _)

\* the elements of an array after "[" up to and including "]"
ParseElements(s, i, acc) ==
  LET v == ParseValue(s, i)
      j == SkipWs(s, v.pos)
  IN IF ~v.ok \/ j > Len(s) THEN ParseFail
     ELSE IF s[j] = "," THEN ParseElements(s, j + 1, acc \o v.val)
     ELSE IF s[j] = "]" THEN Parsed(j + 1, acc \o v.val)
     ELSE ParseFail

\* the members of an object after "{" up to and including "}"
ParseMembers(s, i, acc) ==
  LET j == SkipWs(s, i)
      key == IF j <= Len(s) /\ s[j] = "\"" THEN ParseStringFrom(s, j + 1, <<>>) ELSE ParseFail
      c == SkipWs(s, key.pos)
      v == IF key.ok /\ c <= Len(s) /\ s[c] = ":" THEN ParseValue(s, c + 1) ELSE ParseFail
      m == SkipWs(s, v.pos)
      member == <<Tok("key", key.val)>> \o v.val
  IN IF ~v.ok \/ m > Len(s) THEN ParseFail
     ELSE IF s[m] = "," THEN ParseMembers(s, m + 1, acc \o member)
     ELSE IF s[m] = "}" THEN Parsed(m + 1, acc \o member)
     ELSE ParseFail

ParseValue(s, i) ==
  LET j == SkipWs(s, i)
      n == SkipWs(s, j + 1)
  IN IF j > Len(s) THEN ParseFail
     ELSE IF s[j] = "{"
       THEN LET r == IF n <= Len(s) /\ s[n] = "}" THEN Parsed(n + 1, <<>>)
                     ELSE ParseMembers(s, j + 1, <<>>)
            IN IF r.ok THEN Parsed(r.pos, <<Tok("{", <<>>)>> \o r.val \o <<Tok("}", <<>>)>>)
               ELSE ParseFail
     ELSE IF s[j] = "["
       THEN LET r == IF n <= Len(s) /\ s[n] = "]" THEN Parsed(n + 1, <<>>)
                     ELSE ParseElements(s, j + 1, <<>>)
            IN IF r.ok THEN Parsed(r.pos, <<Tok("[", <<>>)>> \o r.val \o <<Tok("]", <<>>)>>)
               ELSE ParseFail
     ELSE IF s[j] = "\""
       THEN LET r == ParseStringFrom(s, j + 1, <<>>)
            IN IF r.ok THEN Parsed(r.pos, <<Tok("string", r.val)>>) ELSE ParseFail
     ELSE IF s[j] \in Digits
       THEN LET r == ParseDigits(s, j, <<>>)
            IN Parsed(r.pos, <<Tok("number", r.val)>>)
     ELSE ParseFail

\* JSON.parse: the value, or ok = FALSE where JSON.parse throws
JSONParse(s) ==
  LET v == ParseValue(s, 1)
  IN IF v.ok /\ SkipWs(s, v.pos) > Len(s) THEN [ok |-> TRUE, val |-> v.val]
     ELSE [ok |-> FALSE, val |-> <<>>]

\* ------------------------------------------------------- fixUnterminatedStrings
\* The scanning loop: whether the text ends inside a string literal, and
\* where the last string opened.
RECURSIVE ScanStrings(_, _, _, _, _)
ScanStrings(s, i, inString, escapeNext, stringStart) ==
  IF i > Len(s) THEN [inString |-> inString, stringStart |-> stringStart]
  ELSE IF escapeNext THEN ScanStrings(s, i + 1, inString, FALSE, stringStart)
  ELSE IF s[i] = "\\" THEN ScanStrings(s, i + 1, inString, TRUE, stringStart)
  ELSE IF s[i] = "\""
    THEN IF inString THEN ScanStrings(s, i + 1, FALSE, FALSE, stringStart)
         ELSE ScanStrings(s, i + 1, TRUE, FALSE, i)
  ELSE ScanStrings(s, i + 1, inString, FALSE, stringStart)

\* backslashes that directly precede position checkPos + 1, not before stringStart
RECURSIVE BackslashCount(_, _, _)
BackslashCount(s, checkPos, stringStart) ==
  IF checkPos >= stringStart /\ checkPos >= 1 /\ s[checkPos] = "\\"
    THEN 1 + BackslashCount(s, checkPos - 1, stringStart)
    ELSE 0

\* The while loop: the first unescaped ',', '}' or ']' after the opening
\* quote and not after lastValidPos; 0 when there is none.
InsertPos(s, stringStart, lastValidPos) ==
  LET stops == {p \in (stringStart + 1)..Min(Len(s), lastValidPos) :
                  /\ s[p] \in {",", "}", "]"}
                  /\ BackslashCount(s, p - 1, stringStart) % 2 = 0}
  IN IF stops = {} THEN 0 ELSE CHOOSE p \in stops : \A q \in stops : p <= q

fixUnterminatedStrings(jsonString) ==
  LET scan == ScanStrings(jsonString, 1, FALSE, FALSE, 0)
      lastBrace == LastIndexOf(jsonString, "}")
      lastBracket == LastIndexOf(jsonString, "]")
      lastValidPos == Max(Max(lastBrace, lastBracket), 1)
      insertPos == InsertPos(jsonString, scan.stringStart, lastValidPos)
      InsertQuoteAt(p) ==
        Slice(jsonString, 1, p - 1) \o <<"\"">> \o Slice(jsonString, p, Len(jsonString))
  IN IF ~scan.inString THEN jsonString
     ELSE IF scan.stringStart < lastValidPos
       THEN IF insertPos # 0 THEN InsertQuoteAt(insertPos) ELSE InsertQuoteAt(lastValidPos)
     ELSE Append(jsonString, "\"")

\* ---------------------------------------------------------- parseAndRepairJSON
\* The backward scan of the text that holds no '}' after its first
\* character: the counters, and how many leading characters are kept.
RECURSIVE CloseScan(_, _, _, _)
CloseScan(s, i, openBraces, openBrackets) ==
  IF i < 1 THEN [openBraces |-> openBraces, openBrackets |-> openBrackets, keep |-> Len(s)]
  ELSE LET braces == openBraces + (IF s[i] = "}" THEN 1 ELSE IF s[i] = "{" THEN -1 ELSE 0)
           brackets == openBrackets + (IF s[i] = "]" THEN 1 ELSE IF s[i] = "[" THEN -1 ELSE 0)
       IN IF braces < 0 \/ brackets < 0
            THEN [openBraces |-> braces, openBrackets |-> brackets, keep |-> i]
            ELSE CloseScan(s, i - 1, braces, brackets)

\* String.prototype.repeat for one character
Repeat(c, n) == [i \in 1..n |-> c]

\* trimmed.substring(0, lastValidPos) + closing
CloseUnclosed(trimmed) ==
  LET scan == CloseScan(trimmed, Len(trimmed), 0, 0)
      closing == Repeat("}", Max(scan.openBraces, 0)) \o Repeat("]", Max(scan.openBrackets, 0))
  IN Slice(trimmed, 1, scan.keep) \o closing

\* The text cut after its last '}', its strings closed when the quotes of
\* the cut text are odd.
UpToLastBrace(trimmed) ==
  LET beforeLastBrace == Slice(trimmed, 1, LastIndexOf(trimmed, "}"))
  IN IF QuoteCount(beforeLastBrace) % 2 = 0 THEN beforeLastBrace
     ELSE fixUnterminatedStrings(beforeLastBrace)

\* StillUnclosed with the second endsWith test forgotten
StillUnclosedIgnored(closed) == FALSE

\* if (!trimmed.endsWith('}')) throw, after the closing attempt
StillUnclosed(closed) == ~EndsWith(closed, "}")

\* the characters a JSON value can begin with
ValueStarts == {"{", "[", "\"", "-", "t", "f", "n"} \cup Digits

\* The part of the SyntaxError message of JSON.parse that quotes the text.
\* A text whose first token cannot begin a value is refused with
\* "Unexpected token", and the message names that token.  (For a failure
\* further in, the message names the position, and the token or not
\* depending on the engine version: not modelled.)
UnexpectedToken(s) ==
  LET j == SkipWs(s, 1)
  IN IF j <= Len(s) /\ s[j] \notin ValueStarts THEN <<s[j]>> ELSE <<>>

\* A returned value, a thrown Error: `error` names its fixed message text,
\* `original` is what the message appends after "Original: ".
Returned(val) == [kind |-> "returned", error |-> "none", val |-> val, original |-> <<>>]
Thrown(error) == [kind |-> "thrown", error |-> error, val |-> <<>>, original |-> <<>>]
ThrownInvalid(original) == [Thrown("invalid") EXCEPT !.original = original]

\* catch (error) of the route: details is error.message as thrown
ErrorDetails(thrown) == [message |-> thrown.error, original |-> thrown.original]

parseAndRepairJSON(response) ==
  LET trimmed == Trim(response)
      closed == IF EndsWith(trimmed, "}") THEN trimmed
                ELSE IF LastIndexOf(trimmed, "}") > 1 THEN UpToLastBrace(trimmed)
                ELSE CloseUnclosed(trimmed)
      fixed == fixUnterminatedStrings(closed)
      balanced == IF QuoteCount(closed) % 2 = 0 THEN closed ELSE fixed
      first == JSONParse(balanced)
      second == JSONParse(fixUnterminatedStrings(balanced))
  IN IF StillUnclosed(closed) THEN Thrown("incomplete")
     ELSE IF QuoteCount(closed) % 2 # 0 /\ QuoteCount(fixed) % 2 # 0 THEN Thrown("unbalanced")
     ELSE IF first.ok THEN Returned(first.val)
     ELSE IF second.ok THEN Returned(second.val)
     ELSE ThrownInvalid(UnexpectedToken(balanced))

VARIABLES
  route,                   \* which generation route serves the request
  suspects,                \* body.suspects
  caseType,                \* body.caseType
  roomPlayers,             \* phases: number of players getRoomPlayers returned
  pc,                      \* position of the handler (the await it is at)
  selectedSuspects,        \* records returned by the catalog
  selectedWeapon,          \* whether selectWeapon returned a weapon
  queryError,              \* selectWeapon: the query just awaited resolved with an error
  randomKillerIndex,       \* 1-based culprit index (0 before the draw)
  discoveredByPlayerIndex, \* 1-based discoverer index (0 before the draw)
  discoveredByIsKiller,    \* impostor: the draw that makes the culprit the discoverer
                           \* (last read by the log line after the draws)
  caseCore,                \* parsed result of the core stage
  allPlayers,              \* entities assembled so far
  batchStart,              \* loop variable of the batch loop
  hiddenContext,           \* hidden context of the document
  caseStore,               \* rows the run inserted into the case store
  response,                \* responses sent: sequence of [status, doc]
  calls,                   \* generation calls awaited so far, in order: the stage,
                           \* the batch start and size asked for, the array length
                           \* that came back (-1: no array), whether the prompt said
                           \* that the culprit is in the batch
  stageFailure,            \* the error the handler caught: its stage and kind
  deviations,              \* output values that differed from the prompts so far
  jsonText,                \* repair engine: the text handed to parseAndRepairJSON
  parsedJson,              \* repair engine: what parseAndRepairJSON returned or threw
  runs,                    \* concurrent requests: the handler state of each
  openaiClient,            \* concurrent requests: the module's client was created
  discussionHistory,       \* discussion rounds: the history array of the handler
  generatedRounds,         \* discussion rounds: the rounds generated by this request
  roundPrompts             \* discussion rounds: the discussionHistory argument of
                           \* each prompt created so far, in order

vars == <<route, suspects, caseType, roomPlayers, pc, selectedSuspects,
          selectedWeapon, queryError, randomKillerIndex,
          discoveredByPlayerIndex, discoveredByIsKiller, caseCore, allPlayers, batchStart,
          hiddenContext, caseStore, response, calls, stageFailure, deviations,
          jsonText, parsedJson, runs, openaiClient,
          discussionHistory, generatedRounds, roundPrompts>>

NotParsed == [kind |-> "none", error |-> "none", val |-> <<>>, original |-> <<>>]
NoFailure == [stage |-> "none", kind |-> "none"]
NoCore == [present |-> FALSE, caseTitle |-> FALSE, victim |-> FALSE, weapon |-> FALSE]
NoHidden == [present |-> FALSE, killerId |-> NoId]
EmptyStore == [cases |-> 0, victims |-> 0, suspectRows |-> <<>>, hidden |-> 0, weapons |-> 0]
NoDoc == [caseTitle |-> FALSE, victim |-> FALSE, weapon |-> FALSE, players |-> <<>>,
          hiddenContext |-> NoHidden]

Init ==
  /\ route \in Routes
  /\ suspects \in 0..MaxSuspects
  /\ caseType \in {"asesinato", "robo"}
  /\ roomPlayers \in (IF route = "phases" THEN {0, suspects} ELSE {0})
  /\ pc = "start"
  /\ selectedSuspects = <<>>
  /\ selectedWeapon = FALSE
  /\ queryError = FALSE
  /\ randomKillerIndex = 0
  /\ discoveredByPlayerIndex = 0
  /\ discoveredByIsKiller = FALSE
  /\ caseCore = NoCore
  /\ allPlayers = <<>>
  /\ batchStart = 0
  /\ hiddenContext = NoHidden
  /\ caseStore = EmptyStore
  /\ response = <<>>
  /\ calls = <<>>
  /\ stageFailure = NoFailure
  /\ deviations = 0
  /\ jsonText = <<>>
  /\ parsedJson = NotParsed
  /\ runs = <<>>
  /\ openaiClient = FALSE
  /\ discussionHistory = <<>>
  /\ generatedRounds = <<>>
  /\ roundPrompts = <<>>

\* ------------------------------------------------------------ helpers
Bit(b) == IF b THEN 1 ELSE 0

\* What the core call can resolve to when parsing succeeds: the parsed
\* object with each expected field present or not.  The prompt asks for a
\* weapon exactly when one was selected.
CoreOutputs(weapon, budget) ==
  {c \in {[core |-> [present |-> TRUE, caseTitle |-> t, victim |-> v, weapon |-> w],
           cost |-> Bit(~t) + Bit(~v) + Bit(w # weapon)] :
            t \in BOOLEAN, v \in BOOLEAN, w \in {weapon, FALSE}} :
     c.cost <= budget}

\* What the hidden-context call can resolve to when parsing succeeds:
\* whether the object has a hiddenContext, and the culprit id it names.
HiddenOutputs(prompted, budget) ==
  {h \in {[present |-> pr, killerId |-> k,
           cost |-> Bit(~pr) + Bit(k # prompted)] :
            pr \in BOOLEAN, k \in {prompted, NoId}} :
     h.cost <= budget /\ (~h.present => h.killerId = prompted)}

\* BatchSize with the Math.min forgotten: every batch asks for BATCH_SIZE
BatchSizeFixed(start, count) == BATCH_SIZE

\* Math.min(BATCH_SIZE, body.suspects - batchStart)
BatchSize(start, count) == Min(BATCH_SIZE, count - start)

\* NextBatchStart stepping by one entity instead of one batch
NextBatchStartByOne(start) == start + 1

\* the increment of the batch loop: batchStart += BATCH_SIZE
NextBatchStart(start) == start + BATCH_SIZE

\* BatchIndices counted from batchStart instead of batchStart + 1
BatchIndicesFromZero(start, size, count) ==
  {start + i : i \in 0..(Min(start + size, count) - start - 1)}

\* batchIndices of generatePlayersBatch: the (1-based) positions the batch
\* is asked for.  The prompt names the culprit when it is one of them and
\* otherwise says that the culprit is not in the batch.
BatchIndices(start, size, count) ==
  {start + i + 1 : i \in 0..(Min(start + size, count) - start - 1)}

\* BatchLengthOk with the length test dropped
BatchLengthUnchecked(players, size) == TRUE

\* parsed.players.length !== batchSize  ->  throw
BatchLengthOk(players, size) == Len(players) = size

\* allPlayers.length !== body.suspects  ->  throw
TotalLengthOk(players, count) == Len(players) = count

\* The first entity flagged as the culprit (phases: allPlayers.find)
FirstFlagged(players) ==
  IF \E i \in 1..Len(players) : players[i].isKiller
    THEN CHOOSE i \in 1..Len(players) :
           players[i].isKiller /\ \A j \in 1..(i - 1) : ~players[j].isKiller
    ELSE 0

\* The culprit id written over whatever the hidden-context stage returned:
\* the pre-selected index (impostor, initial), or the playerId of the first
\* flagged entity (phases).
FinalKillerId(rt, players, killer) ==
  IF rt = "phases" THEN players[FirstFlagged(players)].id ELSE killer

\* hiddenContext.killerId = `player-${randomKillerIndex}` (impostor, initial),
\* hiddenContext.killerId = killerIdForContext (phases): the id the stage
\* returned is dropped.
ReassertKillerId(rt, generatedId, players, killer) == FinalKillerId(rt, players, killer)

\* case_suspects rows of saveCaseToSupabase
SuspectRows(players, guiltyId) ==
  [i \in 1..Len(players) |->
     [suspect_key |-> players[i].id, photo |-> players[i].photo,
      is_guilty |-> players[i].id = guiltyId]]

BuildResponse(core, players, hidden) ==
  [caseTitle |-> core.caseTitle, victim |-> core.victim, weapon |-> core.weapon,
   players |-> players, hiddenContext |-> hidden]

\* ------------------------------------------------------------ actions
\* catch (error) { res.status(500).json({ error, details }) }
Throw(stage, kind) ==
  /\ response' = Append(response, [status |-> 500, doc |-> NoDoc])
  /\ stageFailure' = [stage |-> stage, kind |-> kind]
  /\ pc' = "done"

\* return res.status(code).json({ error }) outside the catch block
Reject(code) ==
  /\ response' = Append(response, [status |-> code, doc |-> NoDoc])
  /\ pc' = "done"

\* res.json(response)
Respond(doc) ==
  /\ response' = Append(response, [status |-> 200, doc |-> doc])
  /\ pc' = "done"

repair == <<jsonText, parsedJson>>
concurrent == <<runs, openaiClient>>
discussion == <<discussionHistory, generatedRounds, roundPrompts>>
others == <<repair, concurrent, discussion>>
request == <<route, suspects, caseType, roomPlayers>>
roles == <<randomKillerIndex, discoveredByPlayerIndex, discoveredByIsKiller>>
catalog == <<selectedSuspects, selectedWeapon, queryError>>
generated == <<caseCore, allPlayers, batchStart, hiddenContext>>

\* Request validation (!body.suspects rejects 0)
Validate ==
  /\ pc = "start"
  /\ IF suspects = 0
       THEN Reject(400)
       ELSE /\ pc' = IF route = "phases" THEN "room" ELSE "catalog"
            /\ UNCHANGED response
  /\ UNCHANGED <<others, request, roles, catalog, generated, caseStore, calls, stageFailure, deviations>>

\* phases: await getRoomPlayers(body.roomId)
FetchRoomPlayers ==
  /\ pc = "room"
  /\ IF roomPlayers = 0
       THEN Reject(400)
       ELSE /\ pc' = "catalog"
            /\ UNCHANGED response
  /\ UNCHANGED <<others, request, roles, catalog, generated, caseStore, calls, stageFailure, deviations>>

\* preferredGenders && preferredGenders.length > 0: the players' genders are
\* passed on, and the catalog is queried once per position for a record of
\* that gender; it throws when a gender has no unused record left.
GenderPreferences == roomPlayers > 0

\* await SuspectService.getSuspectsForScene(...)
FetchSuspects ==
  /\ pc = "catalog"
  /\ \/ /\ Throw("catalog", "callFailure")
        /\ UNCHANGED selectedSuspects
     \/ /\ GenderPreferences
        /\ Throw("catalog", "exhausted")
        /\ UNCHANGED selectedSuspects
     \/ \E cat \in CatalogResults(suspects) :
          /\ selectedSuspects' = cat
          /\ IF route = "phases" /\ cat = <<>>
               THEN Reject(500)
               ELSE /\ pc' = IF caseType = "asesinato" THEN "weapon" ELSE "roles"
                    /\ UNCHANGED response
          /\ UNCHANGED stageFailure
  /\ UNCHANGED <<others, request, roles, selectedWeapon, queryError, generated, caseStore, calls, deviations>>

\* One query of WeaponService.selectWeapon, awaited.  A rejected promise is
\* rethrown by selectWeapon's catch and ends the run in the route's catch.
\* A query that resolves with rows yields the weapon.  A query that resolves
\* with { error } is logged, one that resolves with no rows is passed over:
\* either way selectWeapon goes on to what follows (onMiss).
WeaponQuery(onMiss) ==
  \/ /\ Throw("weapon", "callFailure")
     /\ queryError' = FALSE
     /\ UNCHANGED selectedWeapon
  \/ /\ selectedWeapon' = TRUE
     /\ queryError' = FALSE
     /\ pc' = "roles"
     /\ UNCHANGED <<response, stageFailure>>
  \/ \E error \in BOOLEAN :
       /\ queryError' = (error /\ onMiss # "roles")
       /\ pc' = onMiss
       /\ UNCHANGED <<selectedWeapon, response, stageFailure>>

\* await WeaponService.selectWeapon(...)  (caseType 'asesinato' only): the
\* scene-specific query, made on a coin flip for a fixed scenario.
SelectWeapon ==
  /\ pc = "weapon"
  /\ \/ WeaponQuery("weaponRandom")
     \/ /\ pc' = "weaponRandom"
        /\ UNCHANGED <<selectedWeapon, queryError, response, stageFailure>>
  /\ UNCHANGED <<others, request, roles, selectedSuspects, generated, caseStore, calls, deviations>>

\* if (!selectedWeapon): the query for any weapon of the style
QueryRandomWeapons ==
  /\ pc = "weaponRandom"
  /\ WeaponQuery("weaponFallback")
  /\ UNCHANGED <<others, request, roles, selectedSuspects, generated, caseStore, calls, deviations>>

\* if (!selectedWeapon): the query without the style filter; after it
\* selectWeapon returns what it has, null included
QueryFallbackWeapons ==
  /\ pc = "weaponFallback"
  /\ WeaponQuery("roles")
  /\ UNCHANGED <<others, request, roles, selectedSuspects, generated, caseStore, calls, deviations>>

\* The random draws.  Indices are kept 1-based for every route (the phases
\* route draws 0-based and adds 1 wherever it names a player).
AssignRoles ==
  /\ pc = "roles"
  /\ \E k \in 1..suspects :
       /\ randomKillerIndex' = k
       /\ CASE route = "impostor" ->
                 /\ \E coincide \in BOOLEAN, d \in 1..suspects :
                      /\ discoveredByIsKiller' = coincide
                      /\ discoveredByPlayerIndex' = IF coincide THEN k ELSE d
                 /\ pc' = "core"
            [] route = "initial" ->
                 /\ discoveredByPlayerIndex' = 0
                 /\ discoveredByIsKiller' = FALSE
                 /\ pc' = "core"
            [] route = "phases" ->
                 /\ discoveredByPlayerIndex' = k
                 /\ discoveredByIsKiller' = FALSE
                 /\ pc' = "redraw"
  /\ UNCHANGED <<others, request, catalog, generated, caseStore, response, calls, stageFailure, deviations>>

\* phases: while (discoveredByPlayerIndex === randomKillerIndex) redraw
RedrawDiscoverer ==
  /\ pc = "redraw"
  /\ discoveredByPlayerIndex = randomKillerIndex
  /\ \E d \in 1..suspects :
       /\ discoveredByPlayerIndex' = d
       /\ pc' = IF d = randomKillerIndex THEN "redraw" ELSE "core"
  /\ UNCHANGED <<others, request, randomKillerIndex, discoveredByIsKiller, catalog, generated,
                 caseStore, response, calls, stageFailure, deviations>>

\* Stage 1: the core call and parseAndRepairJSON of its result
CoreStage ==
  /\ pc = "core"
  /\ calls' = Append(calls, [stage |-> "core", batchStart |-> 0, size |-> 0, returned |-> -1,
                             killerInBatch |-> FALSE])
  /\ \/ /\ \E kind \in {"callFailure", "unrecoverable"} : Throw("core", kind)
        /\ UNCHANGED <<caseCore, deviations>>
     \/ \E c \in CoreOutputs(selectedWeapon, MaxDeviations - deviations) :
          /\ caseCore' = c.core
          /\ deviations' = deviations + c.cost
          /\ pc' = "batch"
          /\ UNCHANGED <<response, stageFailure>>
  /\ discoveredByIsKiller' = FALSE
  /\ UNCHANGED <<others, request, randomKillerIndex, discoveredByPlayerIndex, catalog, allPlayers,
                 batchStart, hiddenContext, caseStore>>

\* Stage 2: one iteration of the batch loop
BatchStage ==
  /\ pc = "batch"
  /\ LET size == BatchSize(batchStart, suspects)
     IN \E out \in BatchOutputs(route, batchStart + 1, size, randomKillerIndex,
                                selectedSuspects, MaxDeviations - deviations) :
          /\ calls' = Append(calls, [stage |-> "batch", batchStart |-> batchStart, size |-> size,
                                     returned |-> IF out.kind = "array" THEN Len(out.players) ELSE -1,
                                     killerInBatch |-> randomKillerIndex \in
                                       BatchIndices(batchStart, size, suspects)])
          /\ deviations' = deviations + out.cost
          /\ IF out.kind # "array"
               THEN /\ Throw("batch", IF out.kind = "noArray" THEN "shapeMismatch" ELSE out.kind)
                    /\ UNCHANGED <<allPlayers, batchStart>>
               ELSE IF ~BatchLengthOk(out.players, size)
                 THEN /\ Throw("batch", "countMismatch")
                      /\ UNCHANGED <<allPlayers, batchStart>>
                 ELSE /\ allPlayers' = allPlayers \o out.players
                      /\ batchStart' = NextBatchStart(batchStart)
                      /\ pc' = IF batchStart' < suspects THEN "batch" ELSE "assemble"
                      /\ UNCHANGED <<response, stageFailure>>
  /\ UNCHANGED <<others, request, roles, catalog, caseCore, hiddenContext, caseStore>>

\* After the loop: the count check, the playerId assignment (phases), the
\* matching against the catalog, and the search for the flagged culprit
\* (phases) that precedes the hidden-context call.
Assemble ==
  /\ pc = "assemble"
  /\ IF ~TotalLengthOk(allPlayers, suspects)
       THEN /\ Throw("batch", "countMismatch")
            /\ UNCHANGED allPlayers
       ELSE LET identified == IF route = "phases"
                                THEN AssignPlayerIds(allPlayers, roomPlayers, suspects)
                                ELSE allPlayers
                matched == Reconcile(route, identified, selectedSuspects)
            IN /\ allPlayers' = matched
               /\ IF route = "phases" /\ FirstFlagged(matched) = 0
                    THEN Throw("hidden", "noKiller")
                    ELSE /\ pc' = "hidden"
                         /\ UNCHANGED <<response, stageFailure>>
  /\ UNCHANGED <<others, request, roles, catalog, caseCore, batchStart, hiddenContext, caseStore,
                 calls, deviations>>

\* Stage 3: the hidden-context call; its culprit id is overwritten; the
\* impostor and phases routes then answer, the initial-case route saves.
HiddenStage ==
  /\ pc = "hidden"
  /\ calls' = Append(calls, [stage |-> "hidden", batchStart |-> 0, size |-> 0, returned |-> -1,
                             killerInBatch |-> FALSE])
  /\ \/ /\ \E kind \in {"callFailure", "unrecoverable"} : Throw("hidden", kind)
        /\ UNCHANGED <<hiddenContext, deviations>>
     \/ \E h \in HiddenOutputs(FinalKillerId(route, allPlayers, randomKillerIndex),
                               MaxDeviations - deviations) :
          /\ deviations' = deviations + h.cost
          /\ IF ~h.present
               THEN /\ Throw("hidden", "shapeMismatch")
                    /\ UNCHANGED hiddenContext
               ELSE LET final == [present |-> TRUE,
                                  killerId |-> ReassertKillerId(route, h.killerId, allPlayers,
                                                                randomKillerIndex)]
                    IN /\ hiddenContext' = final
                       /\ UNCHANGED stageFailure
                       /\ IF route = "initial"
                            THEN /\ pc' = "saveCase"
                                 /\ UNCHANGED response
                            ELSE Respond(BuildResponse(caseCore, allPlayers, final))
  /\ UNCHANGED <<others, request, roles, catalog, caseCore, allPlayers, batchStart, caseStore>>

\* ------------------------------------------------ saveCaseToSupabase (initial)
\* insert into cases; the victim row is built right after it succeeds
SaveCase ==
  /\ pc = "saveCase"
  /\ \/ /\ Throw("save", "storeError")
        /\ UNCHANGED caseStore
     \/ /\ caseStore' = [caseStore EXCEPT !.cases = 1]
        /\ IF ~caseCore.victim
             THEN Throw("save", "typeError")
             ELSE /\ pc' = "saveVictim"
                  /\ UNCHANGED <<response, stageFailure>>
  /\ UNCHANGED <<others, request, roles, catalog, generated, calls, deviations>>

\* insert into case_victims
SaveVictim ==
  /\ pc = "saveVictim"
  /\ \/ /\ Throw("save", "storeError")
        /\ UNCHANGED caseStore
     \/ /\ caseStore' = [caseStore EXCEPT !.victims = 1]
        /\ pc' = "saveSuspects"
        /\ UNCHANGED <<response, stageFailure>>
  /\ UNCHANGED <<others, request, roles, catalog, generated, calls, deviations>>

\* insert into case_suspects
SaveSuspects ==
  /\ pc = "saveSuspects"
  /\ \/ /\ Throw("save", "storeError")
        /\ UNCHANGED caseStore
     \/ /\ caseStore' = [caseStore EXCEPT
                           !.suspectRows = SuspectRows(allPlayers, hiddenContext.killerId)]
        /\ pc' = "saveHidden"
        /\ UNCHANGED <<response, stageFailure>>
  /\ UNCHANGED <<others, request, roles, catalog, generated, calls, deviations>>

\* insert into case_hidden_context: an error is logged, not thrown
SaveHidden ==
  /\ pc = "saveHidden"
  /\ \E stored \in BOOLEAN :
       caseStore' = [caseStore EXCEPT !.hidden = Bit(stored)]
  /\ IF caseCore.weapon
       THEN /\ pc' = "saveWeapon"
            /\ UNCHANGED response
       ELSE Respond(BuildResponse(caseCore, allPlayers, hiddenContext))
  /\ UNCHANGED <<others, request, roles, catalog, generated, calls, stageFailure, deviations>>

\* insert into case_weapons: an error is logged, not thrown
SaveWeapon ==
  /\ pc = "saveWeapon"
  /\ \E stored \in BOOLEAN :
       caseStore' = [caseStore EXCEPT !.weapons = Bit(stored)]
  /\ Respond(BuildResponse(caseCore, allPlayers, hiddenContext))
  /\ UNCHANGED <<others, request, roles, catalog, generated, calls, stageFailure, deviations>>

Next ==
  \/ Validate
  \/ FetchRoomPlayers
  \/ FetchSuspects
  \/ SelectWeapon
  \/ QueryRandomWeapons
  \/ QueryFallbackWeapons
  \/ AssignRoles
  \/ RedrawDiscoverer
  \/ CoreStage
  \/ BatchStage
  \/ Assemble
  \/ HiddenStage
  \/ SaveCase
  \/ SaveVictim
  \/ SaveSuspects
  \/ SaveHidden
  \/ SaveWeapon

Spec == Init /\ [][Next]_vars

\* The handler keeps running: every await resolves and the loop keeps
\* drawing.  A draw that repeats the culprit's index leaves the state as it
\* was, so weak fairness of the next step is a draw that leaves the loop
\* whenever one exists.
FairSpec == Spec /\ WF_vars(Next)

\* ------------------------------------------------- the repair engine alone
\* parseAndRepairJSON applied to one text: every text of at most MaxTextLen
\* characters of TextAlphabet, and the sample texts.
TextAlphabet == {"{", "}", "[", "]", "\"", "\\", ",", ":", "a", "1", " "}

Quote == "\""

\* {"a":"b","c":"d   (cut inside a string value)
TruncatedInString ==
  <<"{", Quote, "a", Quote, ":", Quote, "b", Quote, ",", Quote, "c", Quote, ":", Quote, "d">>
\* {"a":"b","c":"d"}
TruncatedInStringWhole == TruncatedInString \o <<Quote, "}">>
\* {"a":[1,2,3   (']' and '}' missing)
MissingClosers == <<"{", Quote, "a", Quote, ":", "[", "1", ",", "2", ",", "3">>
\* {"a":[1,2,3]}
MissingClosersWhole == MissingClosers \o <<"]", "}">>
\* {"a":"x\"y"}   (an escaped quote inside a string value)
EscapedQuote == <<"{", Quote, "a", Quote, ":", Quote, "x", "\\", Quote, "y", Quote, "}">>
\* {"a":{"b":1},"c":"d   (cut after a closed inner object)
TruncatedAfterObject ==
  <<"{", Quote, "a", Quote, ":", "{", Quote, "b", Quote, ":", "1", "}", ",",
    Quote, "c", Quote, ":", Quote, "d">>
\* a a, a]   (prose)
Prose == <<"a", " ", "a", ",", " ", "a", "]">>

SampleTexts ==
  {TruncatedInString, TruncatedInStringWhole, MissingClosers, MissingClosersWhole,
   EscapedQuote, TruncatedAfterObject, Prose,
   <<" ">> \o MissingClosersWhole \o <<" ">>}

RepairInputs == SampleTexts \cup UNION {[1..n -> TextAlphabet] : n \in 0..MaxTextLen}

RepairInit ==
  /\ jsonText \in RepairInputs
  /\ parsedJson = NotParsed
  /\ runs = <<>>
  /\ openaiClient = FALSE
  /\ discussionHistory = <<>>
  /\ generatedRounds = <<>>
  /\ roundPrompts = <<>>
  /\ route = "impostor"
  /\ suspects = 0
  /\ caseType = "robo"
  /\ roomPlayers = 0
  /\ pc = "start"
  /\ selectedSuspects = <<>>
  /\ selectedWeapon = FALSE
  /\ queryError = FALSE
  /\ randomKillerIndex = 0
  /\ discoveredByPlayerIndex = 0
  /\ discoveredByIsKiller = FALSE
  /\ caseCore = NoCore
  /\ allPlayers = <<>>
  /\ batchStart = 0
  /\ hiddenContext = NoHidden
  /\ caseStore = EmptyStore
  /\ response = <<>>
  /\ calls = <<>>
  /\ stageFailure = NoFailure
  /\ deviations = 0

\* const parsed = parseAndRepairJSON(response)
ParseAndRepair ==
  /\ parsedJson = NotParsed
  /\ parsedJson' = parseAndRepairJSON(jsonText)
  /\ UNCHANGED <<jsonText, concurrent, discussion, request, roles, catalog, generated, pc,
                 caseStore, response, calls, stageFailure, deviations>>

RepairNext == ParseAndRepair

RepairSpec == RepairInit /\ [][RepairNext]_vars

\* --------------------------------------------------- concurrent requests
\* Two requests to the impostor-case route are in flight at once.  The
\* handler is synchronous between its awaits, so a step of a run is the
\* code from one await to the next.  The calls succeed and return what the
\* prompts ask for; the suspects table does not change meanwhile.
Runs == {1, 2}

RunStart ==
  [pc |-> "start", suspects |-> 0, randomKillerIndex |-> 0, selectedSuspects |-> <<>>,
   allPlayers |-> <<>>, batchStart |-> 0, assigned |-> <<>>, killerId |-> NoId]

\* the ids in a run's usedIds set after its matching loop
UsedIds(run) == Range(run.assigned) \ {NoId}

\* ClaimedAtStart with usedIds declared at module level: every run's claims
ClaimedAtStartShared(r, rs) == UNION {UsedIds(rs[q]) : q \in DOMAIN rs}

\* const usedIds = new Set<string>() inside the handler: the claims the
\* matching loop of run r starts from
ClaimedAtStart(r, rs) == UsedIds(rs[r])

\* what getSuspectsForScene returns for `count` when the table has enough
WholeCatalog(count) == [i \in 1..count |-> Suspect(i, i)]

ConcInit ==
  /\ runs = [r \in Runs |-> RunStart]
  /\ openaiClient = FALSE
  /\ discussionHistory = <<>>
  /\ generatedRounds = <<>>
  /\ roundPrompts = <<>>
  /\ jsonText = <<>>
  /\ parsedJson = NotParsed
  /\ route = "impostor"
  /\ suspects = 0
  /\ caseType = "robo"
  /\ roomPlayers = 0
  /\ pc = "start"
  /\ selectedSuspects = <<>>
  /\ selectedWeapon = FALSE
  /\ queryError = FALSE
  /\ randomKillerIndex = 0
  /\ discoveredByPlayerIndex = 0
  /\ discoveredByIsKiller = FALSE
  /\ caseCore = NoCore
  /\ allPlayers = <<>>
  /\ batchStart = 0
  /\ hiddenContext = NoHidden
  /\ caseStore = EmptyStore
  /\ response = <<>>
  /\ calls = <<>>
  /\ stageFailure = NoFailure
  /\ deviations = 0

pipeline == <<request, roles, catalog, generated, pc, caseStore, response, calls,
              stageFailure, deviations, discussion>>

\* the request arrives and passes validation; the handler awaits the catalog
RunReceive(r) ==
  /\ runs[r].pc = "start"
  /\ \E n \in 1..MaxSuspects :
       runs' = [runs EXCEPT ![r].suspects = n, ![r].pc = "catalog"]
  /\ UNCHANGED <<openaiClient, repair, pipeline>>

\* the catalog answers; the culprit is drawn; the core call is issued
\* through getOpenAIClient()
RunRoles(r) ==
  /\ runs[r].pc = "catalog"
  /\ \E k \in 1..runs[r].suspects :
       runs' = [runs EXCEPT ![r].selectedSuspects = WholeCatalog(runs[r].suspects),
                            ![r].randomKillerIndex = k,
                            ![r].pc = "core"]
  /\ openaiClient' = TRUE
  /\ UNCHANGED <<repair, pipeline>>

\* the core call answers; the first batch call is issued
RunCore(r) ==
  /\ runs[r].pc = "core"
  /\ runs' = [runs EXCEPT ![r].pc = "batch"]
  /\ UNCHANGED <<openaiClient, repair, pipeline>>

\* a batch call answers; the next is issued, or the matching loop runs and
\* the hidden-context call is issued
RunBatch(r) ==
  /\ runs[r].pc = "batch"
  /\ LET run == runs[r]
         size == BatchSize(run.batchStart, run.suspects)
         batch == [i \in 1..size |->
                    PromptedEntity("impostor", run.batchStart + i, run.randomKillerIndex,
                                   run.selectedSuspects)]
         players == run.allPlayers \o batch
         start == NextBatchStart(run.batchStart)
         claimed == ClaimedAtStart(r, runs)
     IN IF start < run.suspects
          THEN runs' = [runs EXCEPT ![r].allPlayers = players, ![r].batchStart = start]
          ELSE runs' = [runs EXCEPT
                 ![r].allPlayers = MatchPhotos("impostor", players, run.selectedSuspects, 1, claimed),
                 ![r].assigned = CHOOSE a \in Assignments("impostor", players,
                                                           run.selectedSuspects, 1, claimed) : TRUE,
                 ![r].batchStart = start,
                 ![r].pc = "hidden"]
  /\ UNCHANGED <<openaiClient, repair, pipeline>>

\* the hidden-context call answers; the handler responds
RunHidden(r) ==
  /\ runs[r].pc = "hidden"
  /\ runs' = [runs EXCEPT
                ![r].killerId = ReassertKillerId("impostor", runs[r].randomKillerIndex,
                                                 runs[r].allPlayers, runs[r].randomKillerIndex),
                ![r].pc = "done"]
  /\ UNCHANGED <<openaiClient, repair, pipeline>>

ConcNext ==
  \E r \in Runs :
    \/ RunReceive(r)
    \/ RunRoles(r)
    \/ RunCore(r)
    \/ RunBatch(r)
    \/ RunHidden(r)

ConcSpec == ConcInit /\ [][ConcNext]_vars

\* ================================================================ claims
\* A finished case document: the run answered 200.
Answered200 == pc = "done" /\ Len(response) = 1 /\ response[1].status = 200
Document == response[1].doc

\* The positions whose culprit flag is set: isKiller of the returned players
\* (impostor, phases); is_guilty of the saved suspects (initial, whose
\* returned suspects carry no flag).
Flagged ==
  IF route = "initial"
    THEN {i \in 1..Len(caseStore.suspectRows) : caseStore.suspectRows[i].is_guilty}
    ELSE {i \in 1..Len(Document.players) : Document.players[i].isKiller}

LaterStages == {"hidden", "saveCase", "saveVictim", "saveSuspects", "saveHidden", "saveWeapon"}

BatchCalls == SelectSeq(calls, LAMBDA c : c.stage = "batch")

RECURSIVE SumOfSizes(_)
SumOfSizes(cs) == IF cs = <<>> THEN 0 ELSE Head(cs).size + SumOfSizes(Tail(cs))

\* C1: in every finished case document exactly one entity has its culprit
\* flag set.
C1_ExactlyOneCulprit == Answered200 => Cardinality(Flagged) = 1

\* C2: in every finished case document the flagged entity's identifier is
\* the culprit identifier of the hidden context.
C2_FlaggedIdIsHiddenId ==
  Answered200 =>
    \A i \in Flagged : Document.players[i].id = Document.hiddenContext.killerId

\* C3: the culprit identifier of the returned hidden context is the
\* identifier of the index the role assigner drew before the first call.
C3_HiddenIdIsPreselected ==
  Answered200 => Document.hiddenContext.killerId = randomKillerIndex

\* C4: the identifiers of the finished document are exactly 1..N, none
\* twice and none missing.
C4_IdentifierSet ==
  Answered200 =>
    /\ Len(Document.players) = suspects
    /\ {Document.players[i].id : i \in 1..Len(Document.players)} = 1..suspects

\* C5: when the batch loop has ended the sizes it asked for sum to the
\* requested count, and a run is at a later stage, or has answered 200,
\* only with exactly that many entities.
C5_EntityCount ==
  /\ pc \in {"assemble"} \cup LaterStages => SumOfSizes(BatchCalls) = suspects
  /\ pc \in LaterStages => Len(allPlayers) = suspects
  /\ Answered200 => Len(Document.players) = suspects

\* C5 witness: a run of four entities is at the hidden-context stage after
\* batches of three and one.
C5_Witness ==
  /\ pc = "hidden" /\ suspects = 4
  /\ Len(BatchCalls) = 2 /\ BatchCalls[1].size = 3 /\ BatchCalls[2].size = 1

\* C6: no two entities of a finished document share an image URL; an
\* entity the catalog had no record for has none.
C6_ImageryUnique ==
  Answered200 =>
    \A i, j \in 1..Len(Document.players) :
      (i # j /\ Document.players[i].photo # NoUrl)
        => Document.players[i].photo # Document.players[j].photo

\* C7: a batch call that returns an array of another length than asked for
\* ends the run there with a count mismatch: a 500 answer, no further call,
\* nothing saved.
C7_CountMismatchFails ==
  \A i \in 1..Len(calls) :
    (calls[i].stage = "batch" /\ calls[i].returned >= 0 /\ calls[i].returned # calls[i].size)
      => /\ pc = "done"
         /\ i = Len(calls)
         /\ Len(response) = 1 /\ response[1].status = 500
         /\ stageFailure = [stage |-> "batch", kind |-> "countMismatch"]
         /\ caseStore = EmptyStore

\* C7 witness: the initial-case route asked a batch for three suspects and
\* got two.
C7_Witness ==
  /\ route = "initial"
  /\ \E i \in 1..Len(calls) :
       calls[i].stage = "batch" /\ calls[i].size = 3 /\ calls[i].returned = 2

\* The store holds the whole document of the run.
StoreComplete ==
  /\ caseStore.cases = 1
  /\ caseStore.victims = 1
  /\ Len(caseStore.suspectRows) = suspects
  /\ caseStore.hidden = 1
  /\ caseCore.weapon => caseStore.weapons = 1

\* C8: when a run has ended the store holds nothing of it or all of it.
C8_AllOrNothingStore == pc = "done" => (caseStore = EmptyStore \/ StoreComplete)

\* The core stage returned an object without one of its expected fields.
CoreShapeMismatch == caseCore.present /\ ~(caseCore.caseTitle /\ caseCore.victim)

\* C9: once a stage has failed (a call failure, an unrepairable result, a
\* shape or count mismatch) no further generation call is made.
C9_FailureHalts ==
  [][(stageFailure # NoFailure \/ CoreShapeMismatch) => calls' = calls]_vars

\* C10: a run that has ended sent exactly one response; it is a 200 only if
\* no stage failed, and then it carries the whole document.
C10_OneFullResponse ==
  pc = "done" =>
    /\ Len(response) = 1
    /\ response[1].status = 200 =>
         /\ stageFailure = NoFailure
         /\ ~CoreShapeMismatch
         /\ Document.caseTitle /\ Document.victim
         /\ Len(Document.players) = suspects
         /\ Document.hiddenContext.present
    /\ stageFailure # NoFailure => response[1].status = 500

\* ---------------------------------------------------- repair engine claims
\* C11: parseAndRepairJSON of a text that is valid JSON returns the value
\* JSON.parse returns for that text.
C11_RepairIdempotent ==
  (parsedJson # NotParsed /\ JSONParse(jsonText).ok)
    => parsedJson = Returned(JSONParse(jsonText).val)

\* C12: parseAndRepairJSON of {"a":"b","c":"d does not throw and returns the
\* object {"a":"b","c":"d"}.
C12_TruncatedStringClosed ==
  (parsedJson # NotParsed /\ jsonText = TruncatedInString)
    => parsedJson = Returned(JSONParse(TruncatedInStringWhole).val)

\* C13: parseAndRepairJSON of {"a":[1,2,3 appends "]}" and returns the
\* object {"a":[1,2,3]}.
C13_MissingClosersAppended ==
  (parsedJson # NotParsed /\ jsonText = MissingClosers)
    => /\ CloseUnclosed(jsonText) = MissingClosersWhole
       /\ parsedJson = Returned(JSONParse(MissingClosersWhole).val)

\* C14: parseAndRepairJSON of a text holding neither '{' nor '}' throws the
\* not-closed error and returns no value.
C14_NoBracesThrows ==
  (parsedJson # NotParsed /\ \A i \in 1..Len(jsonText) : jsonText[i] \notin {"{", "}"})
    => parsedJson = Thrown("incomplete")

\* C14 witness: parseAndRepairJSON threw on the prose sample.
C14_Witness == jsonText = Prose /\ parsedJson.kind = "thrown"

\* ------------------------------------------------------ reconciler claims
\* The first entity's candidates hold two records of the same, highest score.
TieAtTop ==
  LET candidates == Candidates(route, allPlayers[1], selectedSuspects, {})
  IN \E p, q \in AnyBestPicks(route, allPlayers[1], candidates) : p # q

\* C15: for the entity list and the catalog list of a run the matching
\* loop has exactly one outcome, and the images of the matched entities
\* are the ones of that outcome.  (The loop reads role, gender and age,
\* which it does not change.)
C15_ReconcileDeterministic ==
  pc = "hidden" =>
    LET outcomes == Assignments(route, allPlayers, selectedSuspects, 1, {})
    IN /\ Cardinality(outcomes) = 1
       /\ \A a \in outcomes : \A i \in 1..Len(allPlayers) :
            \A o \in Range(selectedSuspects) :
              (o.id = a[i] /\ o.image_url # NoUrl) => allPlayers[i].photo = o.image_url

\* C15 witness: a matched run whose first entity had two records of the
\* same highest score to choose from.
C15_Witness == pc = "hidden" /\ Len(allPlayers) > 0 /\ TieAtTop

\* ------------------------------------------------------ concurrency claims
\* the entity list a run's batches return, before matching
UnmatchedPlayers(run) ==
  [i \in 1..run.suspects |->
     PromptedEntity("impostor", i, run.randomKillerIndex, run.selectedSuspects)]

\* C16: whatever the other requests did meanwhile, a run that has matched
\* holds the entity list, the claimed records and the culprit it would hold
\* had it run alone: the loop started from no claim of another run.
C16_RunsIndependent ==
  \A r \in Runs :
    runs[r].pc \in {"hidden", "done"} =>
      LET run == runs[r]
          alone == Assignments("impostor", UnmatchedPlayers(run), run.selectedSuspects, 1, {})
      IN /\ run.allPlayers = Reconcile("impostor", UnmatchedPlayers(run), run.selectedSuspects)
         /\ alone = {run.assigned}
         /\ run.pc = "done" => run.killerId = run.randomKillerIndex

\* C16 witness: two runs overlapped and both claimed the first record.
C16_Witness ==
  /\ runs[1].pc = "done" /\ runs[2].pc = "hidden"
  /\ runs[1].suspects = 4 /\ runs[2].batchStart > 0
  /\ 1 \in UsedIds(runs[1]) \cap UsedIds(runs[2])

\* ------------------------------------------------------ call order claims
CeilDiv(a, b) == (a + b - 1) \div b

\* C17: the calls of a run are the core call, then the batch calls for the
\* ranges starting at 0, 3, 6, ... in that order, then the hidden-context
\* call, which is made only after every batch; a run that answered 200 made
\* ceil(N/3) + 2 calls.
C17_StageOrder ==
  /\ \A i \in 1..Len(calls) :
       /\ calls[i].stage = "core" <=> i = 1
       /\ calls[i].stage = "batch" => calls[i].batchStart = BATCH_SIZE * (i - 2)
       /\ calls[i].stage = "hidden" =>
            i = Len(calls) /\ i = CeilDiv(suspects, BATCH_SIZE) + 2
  /\ Answered200 => /\ Len(calls) = CeilDiv(suspects, BATCH_SIZE) + 2
                     /\ calls[Len(calls)].stage = "hidden"

\* C17 witness: a run for four entities answered 200 after four calls.
C17_Witness == Answered200 /\ suspects = 4 /\ Len(calls) = 4

\* ------------------------------------------------------ role assigner claims
\* C18: the redraw of the discoverer index ends: a run that entered the
\* loop reaches the core stage.
C18_RedrawTerminates == (pc = "redraw") ~> (pc = "core")

\* ------------------------------------------------------ error-kind claims
\* C19: a catalog that answers with fewer records than requested (none of
\* a required gender, or none at all) does not end the run: unless the
\* query itself failed, the catalog step is followed by the next stage.
C19_CatalogExhaustedNonFatal ==
  [][(pc = "catalog" /\ stageFailure'.kind # "callFailure") => pc' # "done"]_vars

\* C20: a catalog query that resolves with an error ends the run there,
\* with an error response, and no further query is made for it.
C20_UpstreamFailureTerminal ==
  queryError => /\ pc = "done"
                /\ Len(response) = 1
                /\ response[1].status = 500

\* C21: a stage whose parsed JSON lacks an expected field (the core's title
\* or victim, a batch's array, the hidden context) fails there with a shape
\* mismatch, and the run returns no document.
C21_ShapeMismatchFails ==
  (CoreShapeMismatch \/ stageFailure.kind = "shapeMismatch")
    => /\ pc = "done"
       /\ stageFailure.kind = "shapeMismatch"
       /\ Len(response) = 1 /\ response[1].status = 500

\* ------------------------------------------------------ document claims
\* C22: a finished document of a request with caseType 'asesinato' carries
\* a weapon.
C22_MurderHasWeapon == (Answered200 /\ caseType = "asesinato") => Document.weapon

\* ------------------------------------------- the matching loop on any output
\* A run that has left the batch loop with an entity list whose gender,
\* role and image are whatever the generation service wrote (the handler
\* tests the length of the arrays only), followed to its answer.
EntityGenders == {"male", "female"}
EntityRoles == {OccupationEs(1), OccupationEs(2)}
EntityPhotos == {NoUrl, InventedUrl}
EntityAges == {34}

Profiles == [gender : EntityGenders, role : EntityRoles, photo : EntityPhotos, age : EntityAges]

\* the entity lists of `count` entities the batches can have returned
EntityLists(rt, count, killer) ==
  {[i \in 1..count |->
      [id |-> i, name |-> i, isKiller |-> (rt # "initial" /\ i = killer),
       photo |-> f[i].photo, gender |-> f[i].gender, role |-> f[i].role,
       age |-> f[i].age]] :
     f \in [1..count -> Profiles]}

\* the calls a run has made when its batch loop has ended
CallsOfBatches(count, killer) ==
  <<[stage |-> "core", batchStart |-> 0, size |-> 0, returned |-> -1,
     killerInBatch |-> FALSE]>>
  \o [i \in 1..CeilDiv(count, BATCH_SIZE) |->
        [stage |-> "batch", batchStart |-> BATCH_SIZE * (i - 1),
         size |-> BatchSize(BATCH_SIZE * (i - 1), count),
         returned |-> BatchSize(BATCH_SIZE * (i - 1), count),
         killerInBatch |-> killer \in BatchIndices(BATCH_SIZE * (i - 1),
                                                   BatchSize(BATCH_SIZE * (i - 1), count), count)]]

MatchInit ==
  /\ route \in Routes
  /\ suspects \in 1..MaxEntities
  /\ route = "phases" => suspects > 1
  /\ caseType = "asesinato"
  /\ roomPlayers = IF route = "phases" THEN suspects ELSE 0
  /\ pc = "assemble"
  /\ selectedSuspects \in CatalogResults(suspects)
  /\ route = "phases" => selectedSuspects # <<>>
  /\ selectedWeapon = TRUE
  /\ queryError = FALSE
  /\ randomKillerIndex \in 1..suspects
  /\ discoveredByPlayerIndex =
       (CASE route = "impostor" -> randomKillerIndex
          [] route = "initial" -> 0
          [] route = "phases" -> IF randomKillerIndex = 1 THEN 2 ELSE 1)
  /\ discoveredByIsKiller = FALSE
  /\ caseCore = [present |-> TRUE, caseTitle |-> TRUE, victim |-> TRUE, weapon |-> TRUE]
  /\ allPlayers \in EntityLists(route, suspects, randomKillerIndex)
  /\ batchStart = BATCH_SIZE * CeilDiv(suspects, BATCH_SIZE)
  /\ hiddenContext = NoHidden
  /\ caseStore = EmptyStore
  /\ response = <<>>
  /\ calls = CallsOfBatches(suspects, randomKillerIndex)
  /\ stageFailure = NoFailure
  /\ deviations = MaxDeviations
  /\ jsonText = <<>>
  /\ parsedJson = NotParsed
  /\ runs = <<>>
  /\ openaiClient = FALSE
  /\ discussionHistory = <<>>
  /\ generatedRounds = <<>>
  /\ roundPrompts = <<>>

MatchNext ==
  \/ Assemble
  \/ HiddenStage
  \/ SaveCase
  \/ SaveVictim
  \/ SaveSuspects
  \/ SaveHidden
  \/ SaveWeapon

MatchSpec == MatchInit /\ [][MatchNext]_vars

\* the image URLs of the records the catalog returned
CatalogUrls == {o.image_url : o \in Range(selectedSuspects)} \ {NoUrl}

\* the catalog returned a usable record for every entity requested
EnoughUsable == Cardinality(CatalogUrls) >= suspects

\* C23: when the catalog returned at least as many usable records as
\* entities were requested, every entity of the matched list, and of the
\* returned document, has an image URL of a record fetched in this run.
C23_ImageryFromCatalog ==
  EnoughUsable =>
    /\ pc # "assemble" => \A i \in 1..Len(allPlayers) : allPlayers[i].photo \in CatalogUrls
    /\ Answered200 =>
         \A i \in 1..Len(Document.players) : Document.players[i].photo \in CatalogUrls

\* C23 witness: a document of two entities, answered from a catalog of two
\* usable records, whose second entity is of the gender and role of neither
\* record's position.
C23_Witness ==
  /\ Answered200 /\ suspects = 2 /\ EnoughUsable
  /\ Document.players[2].gender = "male" /\ Document.players[1].gender = "female"
  /\ Document.players[2].photo \in CatalogUrls

\* ---------------------------------------------------- error response claims
\* C24: the details of the error response of a run whose generation output
\* could not be parsed carry the fixed message of the failure and nothing
\* of the output's text.
C24_NoPayloadInDetails ==
  parsedJson.kind = "thrown" =>
    ErrorDetails(parsedJson) = [message |-> parsedJson.error, original |-> <<>>]

\* ------------------------------------------------------ imagery claims
\* the image of the catalog record of identifier id (none for NoId)
ImageOf(cat, id) ==
  IF \E o \in Range(cat) : o.id = id
    THEN (CHOOSE o \in Range(cat) : o.id = id).image_url
    ELSE NoUrl

\* C25: the image of every entity of a finished document is the one the
\* matching loop wrote, the image of the record it assigned to the entity,
\* and none where it assigned no record or the record has no image: no
\* value written by a generation stage is left in the document.
C25_ImageryOnlyFromReconciler ==
  Answered200 =>
    \A a \in Assignments(route, Document.players, selectedSuspects, 1, {}) :
      \A i \in 1..Len(Document.players) :
        Document.players[i].photo = ImageOf(selectedSuspects, a[i])

\* ------------------------------------------------------ role claims
\* C26: when the draws are made and the first call is about to start, the
\* discoverer index differs from the culprit index unless the assigner
\* drew that the culprit is the discoverer.
C26_DiscovererDiffers ==
  (pc = "core" /\ route # "initial")
    => (discoveredByPlayerIndex = randomKillerIndex => discoveredByIsKiller)

\* ------------------------------------------------------ matching claims
\* C27: the record the matching loop assigns to an entity has the entity's
\* gender whenever a record of that gender was still unclaimed when the
\* entity's turn came.
C27_GenderRestriction ==
  pc = "hidden" =>
    \A a \in Assignments(route, allPlayers, selectedSuspects, 1, {}) :
      \A i \in 1..Len(allPlayers) :
        LET claimed == {a[j] : j \in 1..(i - 1)}
            sameGender == {o \in Range(selectedSuspects) :
                             o.id \notin claimed /\ o.gender = allPlayers[i].gender}
        IN sameGender # {} => a[i] \in {o.id : o \in sameGender}

\* the entity's role equals the record's occupation in one of the locales,
\* letter case aside
ExactOccupation(gen, orig) ==
  /\ gen.role # <<>>
  /\ ToLowerCase(gen.role) \in {ToLowerCase(orig.occupation.es), ToLowerCase(orig.occupation.en)}

\* C28: the matching loop picks the unclaimed record of the highest score,
\* and the score of an exact occupation match exceeds what a substring
\* match, the gender and the age can add up to: an entity whose role
\* equals the occupation of an unclaimed record is assigned such a record.
C28_ExactOccupationWins ==
  pc = "hidden" =>
    \A a \in Assignments(route, allPlayers, selectedSuspects, 1, {}) :
      \A i \in 1..Len(allPlayers) :
        LET claimed == {a[j] : j \in 1..(i - 1)}
            exact == {o \in Range(selectedSuspects) :
                        o.id \notin claimed /\ ExactOccupation(allPlayers[i], o)}
        IN exact # {} => a[i] \in {o.id : o \in exact}

\* ------------------------------------------------------ batch prompt claims
\* the batch calls whose prompt said that the culprit is in the batch
ToldCulprit == {i \in 1..Len(calls) : calls[i].stage = "batch" /\ calls[i].killerInBatch}

\* C29: a batch is told that the culprit is inside it exactly when the
\* culprit index lies in its identifier range, no two batches are told so,
\* and when the batch loop has ended exactly one batch has been told so.
C29_OneBatchToldCulprit ==
  /\ \A i \in 1..Len(calls) :
       calls[i].stage = "batch" =>
         (calls[i].killerInBatch <=>
            randomKillerIndex \in (calls[i].batchStart + 1)..(calls[i].batchStart + calls[i].size))
  /\ Cardinality(ToldCulprit) <= 1
  /\ (pc \in {"assemble"} \cup LaterStages \/ Answered200) => Cardinality(ToldCulprit) = 1

\* C29 witness: a run of four entities whose culprit is the fourth has
\* ended its batch loop; the second batch was told, the first was not.
C29_Witness ==
  /\ pc = "hidden" /\ suspects = 4 /\ randomKillerIndex = 4
  /\ ~calls[2].killerInBatch /\ calls[3].killerInBatch

\* ------------------------------------------- generate-all-discussion-rounds
\* One request to generateAllDiscussionRounds.  A round is named by its id.
roundsToGenerate == <<3, 4, 5, 6>>

\* (caseData as any).discussionHistory || []: the rounds stored with the case
StoredHistories == {[i \in 1..k |-> i] : k \in 0..MaxStoredRounds}

\* Array.prototype.sort((a, b) => a.id - b.id) of rounds of distinct ids
SortedRounds(rounds) ==
  [i \in 1..Len(rounds) |->
     CHOOSE r \in Range(rounds) : Cardinality({q \in Range(rounds) : q < r}) = i - 1]

RoundsInit ==
  /\ pc = "start"
  /\ response = <<>>
  /\ discussionHistory = <<>>
  /\ generatedRounds = <<>>
  /\ roundPrompts = <<>>
  /\ route = "impostor"
  /\ suspects = 0
  /\ caseType = "robo"
  /\ roomPlayers = 0
  /\ selectedSuspects = <<>>
  /\ selectedWeapon = FALSE
  /\ queryError = FALSE
  /\ randomKillerIndex = 0
  /\ discoveredByPlayerIndex = 0
  /\ discoveredByIsKiller = FALSE
  /\ caseCore = NoCore
  /\ allPlayers = <<>>
  /\ batchStart = 0
  /\ hiddenContext = NoHidden
  /\ caseStore = EmptyStore
  /\ calls = <<>>
  /\ stageFailure = NoFailure
  /\ deviations = 0
  /\ jsonText = <<>>
  /\ parsedJson = NotParsed
  /\ runs = <<>>
  /\ openaiClient = FALSE

generation == <<request, roles, catalog, generated, caseStore, calls, stageFailure, deviations>>

\* if (!body.roomId) return res.status(400)
ValidateRounds ==
  /\ pc = "start"
  /\ \E hasRoomId \in BOOLEAN :
       IF hasRoomId
         THEN pc' = "case" /\ UNCHANGED response
         ELSE Reject(400)
  /\ UNCHANGED <<repair, concurrent, discussion, generation>>

\* what an awaited room query comes to: a result, no result, or an
\* exception that the handler's outer catch answers with 500
FetchOutcomes == {"found", "missing", "thrown"}

\* await getCaseFromRoom(body.roomId)
FetchCase ==
  /\ pc = "case"
  /\ \E outcome \in FetchOutcomes :
       CASE outcome = "found" -> pc' = "players" /\ UNCHANGED response
         [] outcome = "missing" -> Reject(404)
         [] outcome = "thrown" -> Reject(500)
  /\ UNCHANGED <<repair, concurrent, discussion, generation>>

\* await getRoomPlayers(body.roomId); with the players at hand the history
\* array starts as the one stored with the case
FetchPlayers ==
  /\ pc = "players"
  /\ \E outcome \in FetchOutcomes :
       CASE outcome = "found" ->
              /\ discussionHistory' \in StoredHistories
              /\ pc' = "rounds"
              /\ UNCHANGED response
         [] outcome = "missing" -> Reject(404) /\ UNCHANGED discussionHistory
         [] outcome = "thrown" -> Reject(500) /\ UNCHANGED discussionHistory
  /\ UNCHANGED <<repair, concurrent, generatedRounds, roundPrompts, generation>>

\* One iteration of for (const roundNumber of roundsToGenerate): the prompt
\* is created from [...discussionHistory, ...generatedRounds], the call is
\* awaited and its result parsed; a round that parsed is pushed onto both
\* arrays, a failure is caught and the loop continues.
GenerateRound ==
  /\ pc = "rounds"
  /\ Len(roundPrompts) < Len(roundsToGenerate)
  /\ LET roundNumber == roundsToGenerate[Len(roundPrompts) + 1]
     IN /\ roundPrompts' = Append(roundPrompts, discussionHistory \o generatedRounds)
        /\ \E generatedOk \in BOOLEAN :
             IF generatedOk
               THEN /\ generatedRounds' = Append(generatedRounds, roundNumber)
                    /\ discussionHistory' = Append(discussionHistory, roundNumber)
               ELSE UNCHANGED <<generatedRounds, discussionHistory>>
  /\ UNCHANGED <<repair, concurrent, generation, pc, response>>

\* After the loop: 500 when no round was generated, else the rounds by id
RespondRounds ==
  /\ pc = "rounds"
  /\ Len(roundPrompts) = Len(roundsToGenerate)
  /\ IF generatedRounds = <<>>
       THEN Reject(500)
       ELSE Respond(SortedRounds(generatedRounds))
  /\ UNCHANGED <<repair, concurrent, discussion, generation>>

RoundsNext ==
  \/ ValidateRounds
  \/ FetchCase
  \/ FetchPlayers
  \/ GenerateRound
  \/ RespondRounds

RoundsSpec == RoundsInit /\ [][RoundsNext]_vars

\* how often round r occurs in the history
Occurrences(history, r) == Cardinality({i \in 1..Len(history) : history[i] = r})

\* C30: the history given to the prompt of each round holds every round
\* this request generated before it exactly once.
C30_HistoryOncePerRound ==
  \A p \in 1..Len(roundPrompts) :
    \A r \in Range(generatedRounds) :
      r < roundsToGenerate[p] => Occurrences(roundPrompts[p], r) = 1

====
